---- MODULE Spec2Model ----
(***************************************************************************)
(* battle_jeep (src/src/main.rs): a Bevy application.  One jeep (the       *)
(* player) fires rockets at planes that a repeating timer spawns; planes   *)
(* drop bombs on a timer of their own.                                     *)
(*                                                                         *)
(* The model follows the application frame by frame.  A frame runs the     *)
(* FixedUpdate schedule zero or more times (rocket_collision), then every  *)
(* system of the Update schedule once, and then applies the commands the   *)
(* Update systems queued.  main() orders none of the Update systems, so    *)
(* the engine may run them in any order, and in a different order in every *)
(* frame.                                                                  *)
(*                                                                         *)
(* Units.  Time is counted in half seconds (a frame's delta is a number of *)
(* half seconds).  Positions are whole pixels; speeds are the source's     *)
(* pixels per second.  Bounding boxes are kept in half pixels, so that the *)
(* half extent 0.5 of a rocket is the integer 1.  The arithmetic is exact: *)
(* the rounding of f32 is not modelled.                                    *)
(*                                                                         *)
(* Engine.  Commands (spawn, despawn) take effect when the schedule that   *)
(* queued them ends.  A repeating Timer is finished() only after the tick  *)
(* that reached its duration.  How many FixedUpdate passes a frame runs    *)
(* depends on the engine's accumulator of fixed timesteps, which is not    *)
(* modelled: a frame runs between zero and MaxFixedPasses passes.          *)
(***************************************************************************)
EXTENDS Integers, Sequences, FiniteSets

VARIABLES
    window,           \* the primary window: [w, h] in pixels
    world,            \* the live entities: entity id -> components
    nextId,           \* the next entity id to hand out
    planeSpawnTimer,  \* the PlaneSpawnTimer resource
    keys,             \* ButtonInput<KeyCode> as the systems of this frame read it
    delta,            \* Time::delta of this frame, in half seconds
    now,              \* elapsed time since startup, in half seconds
    ran,              \* the Update systems that already ran in this frame
    passes,           \* the FixedUpdate passes that already ran in this frame
    cmds,             \* the Commands queued by this frame's Update systems
    events,           \* CollisionEvents sent during this frame
    hist,             \* observation only: counters over the whole run, and
                      \* (seen) the rockets and planes that overlapped when
                      \* the frame began
    probe             \* observation only: one call of is_collision, its two
                      \* boxes and what it returned

vars == <<window, world, nextId, planeSpawnTimer, keys, delta, now, ran,
          passes, cmds, events, hist, probe>>

----------------------------------------------------------------------------
(* Bounds of the exploration *)

\* Total simulated time, in half seconds.
MaxTime == 6
\* Fire edges in one run.
MaxRockets == 2
\* FixedUpdate passes in one frame.
MaxFixedPasses == 1
\* How far the player is driven from where it starts, in half seconds of
\* driving.
MaxTravel == 2

\* Frame deltas, in half seconds.
Deltas == {0, 2}

\* Total simulated time, frame deltas and window of the runs that leave the
\* keys alone and follow the timers in finer steps.  A delta of 8 spans two
\* periods of a timer.
MaxTimerTime == 8
TimerDeltas == {0, 1, 2, 3, 4, 8}
TimerWindows == { [w |-> 100, h |-> 132] }

\* Total simulated time, frame deltas and window of the runs that leave the
\* player where it is and last until a bomb has fallen below the floor.
MaxBombTime == 20
BombDeltas == {4}
BombWindows == { [w |-> 400, h |-> 132] }

\* The calls of is_collision that are followed one by one: the centre of the
\* collider lies at most MaxOffset from the centre of the colliding box on
\* each axis, and the half extents are those of HalfExtents.
MaxOffset == 4
HalfExtents == {1, 2}
BoxWindows == { [w |-> 200, h |-> 632] }

\* Sizes of the primary window.  In the first the planes fly at the height
\* of the player and a bomb is below the floor after one half second; in
\* the second a rocket reaches exactly the window's height.
Windows == { [w |-> 200, h |-> 132], [w |-> 200, h |-> 632] }

----------------------------------------------------------------------------
(* Constants of the program *)

PlayerSpeed == 500
RocketSpeed == 600
PlaneSpeed == 100
BombSpeed == 100
PlayerY == 32
PlaneTopOffset == 100
BombFloor == -16
\* Timer::from_seconds(2.0, ..), in half seconds
PlanePeriod == 4
BombPeriod == 4

\* speed (pixels per second) * d (half seconds), in pixels
Dist(speed, d) == (speed * d) \div 2

Abs(n) == IF n < 0 THEN -n ELSE n

----------------------------------------------------------------------------
(* Timer (bevy::time::Timer, TimerMode::Repeating) *)

TimerFromSeconds(period) == [duration |-> period, elapsed |-> 0, finished |-> FALSE]

TickIdleAtZero(t, d) ==
    LET e == t.elapsed + d
        fin == e >= t.duration
    IN  IF d = 0 THEN t
        ELSE [t EXCEPT !.finished = fin,
                       !.elapsed = IF fin THEN e - t.duration * (e \div t.duration) ELSE e]

\* Timer::tick: the stopwatch advances by d; the timer is finished exactly
\* when this tick reached the duration, and a repeating timer wraps around.
Tick(t, d) ==
    LET e == t.elapsed + d
        fin == e >= t.duration
    IN  [t EXCEPT !.finished = fin,
                  !.elapsed = IF fin THEN e - t.duration * (e \div t.duration) ELSE e]

----------------------------------------------------------------------------
(* Entities *)

NoTimer == [duration |-> 0, elapsed |-> 0, finished |-> FALSE]

\* scale is Transform::scale (x and y are equal everywhere in the program);
\* age and dropped observe a plane: the time it has lived and the bombs it
\* has dropped.
Entity(kind, x, y, scale, speed, collider, timer) ==
    [kind |-> kind, x |-> x, y |-> y, scale |-> scale, speed |-> speed,
     collider |-> collider, timer |-> timer, age |-> 0, dropped |-> 0]

PlayerEntity(win) == Entity("player", win.w \div 2, PlayerY, 2, PlayerSpeed, TRUE, NoTimer)
RocketEntity(x, y) == Entity("rocket", x, y, 1, RocketSpeed, FALSE, NoTimer)
PlaneEntity(win) ==
    Entity("plane", win.w, win.h - PlaneTopOffset, 2, PlaneSpeed, TRUE,
           TimerFromSeconds(BombPeriod))
BombEntityWithCollider(x, y) == Entity("bomb", x, y, 2, BombSpeed, TRUE, NoTimer)
BombEntity(x, y) == Entity("bomb", x, y, 2, BombSpeed, FALSE, NoTimer)

\* Query<.., With<K>>
Of(w, kind) == {id \in DOMAIN w : w[id].kind = kind}
\* Query<.., With<Collider>>
Colliders(w) == {id \in DOMAIN w : w[id].collider}

NoCmds == [spawn |-> <<>>, despawn |-> {}]

\* Applying queued commands: despawn (a despawn of an entity that is already
\* gone does nothing), then spawn with fresh ids.
Apply(w, base, c) ==
    LET keep == DOMAIN w \ c.despawn
        fresh == {base + i - 1 : i \in 1..Len(c.spawn)}
    IN  [id \in keep \cup fresh |->
            IF id \in keep THEN w[id] ELSE c.spawn[id - base + 1]]

----------------------------------------------------------------------------
(* Collision (bevy::math::bounding::Aabb2d, in half pixels) *)

\* Aabb2d::new(translation.truncate(), scale.truncate() / 2.0)
Aabb(e) == [minx |-> 2 * e.x - e.scale, maxx |-> 2 * e.x + e.scale,
            miny |-> 2 * e.y - e.scale, maxy |-> 2 * e.y + e.scale]

\* Aabb2d::center, twice the half-pixel value (so that it stays whole)
Center2(b) == [x |-> b.minx + b.maxx, y |-> b.miny + b.maxy]

IntersectsOnX(a, b) == a.minx <= b.maxx /\ a.maxx >= b.minx

\* IntersectsVolume for Aabb2d: closed intervals overlap on both axes
Intersects(a, b) ==
    /\ a.minx <= b.maxx /\ a.maxx >= b.minx
    /\ a.miny <= b.maxy /\ a.maxy >= b.miny

Clamp(v, lo, hi) == IF v < lo THEN lo ELSE IF v > hi THEN hi ELSE v

\* Aabb2d::closest_point(point) = point.clamp(min, max), doubled like Center2
ClosestPoint2(b, p) == [x |-> Clamp(p.x, 2 * b.minx, 2 * b.maxx),
                        y |-> Clamp(p.y, 2 * b.miny, 2 * b.maxy)]

is_collision(colliding, collider) ==
    IF ~Intersects(colliding, collider) THEN "None"
    ELSE LET c == Center2(colliding)
             closest == ClosestPoint2(collider, c)
             ox == c.x - closest.x
             oy == c.y - closest.y
         IN  IF Abs(ox) > Abs(oy)
             THEN (IF ox < 0 THEN "Left" ELSE "Right")
             ELSE (IF oy > 0 THEN "Top" ELSE "Bottom")

\* An Aabb2d by its centre and its half extent (the same on both axes)
Box(cx, cy, half) == [minx |-> cx - half, maxx |-> cx + half,
                      miny |-> cy - half, maxy |-> cy + half]

\* No call of is_collision is observed
NoProbe == [colliding |-> Box(0, 0, 0), collider |-> Box(0, 0, 0), result |-> "unset"]

\* The (rocket, collider) pairs of one pass for which is_collision is Some
Hits(w) ==
    {p \in Of(w, "rocket") \X Colliders(w) :
        is_collision(Aabb(w[p[1]]), Aabb(w[p[2]])) # "None"}

\* The hits of a rocket on a plane, and the entities in them
PlaneHits(w) == {p \in Hits(w) : w[p[2]].kind = "plane"}
InPlaneHits(w) == UNION {{p[1], p[2]} : p \in PlaneHits(w)}

HitDespawnsAnyCollider(w, rocket, collider) == {collider, rocket}

HitDespawnsPlaneAlone(w, rocket, collider) ==
    IF w[collider].kind = "plane" THEN {collider} ELSE {}

\* What one hit despawns: the collider and the rocket, when the collider
\* carries a Plane (plane.is_some())
HitDespawns(w, rocket, collider) ==
    IF w[collider].kind = "plane" THEN {collider, rocket} ELSE {}

HitEventsForPlanes(w, rocket, collider) ==
    IF w[collider].kind = "plane" THEN 1 ELSE 0

\* collision_events.send_default(), once per hit and before the collider is
\* looked at
HitEvents(w, rocket, collider) == 1

\* The events of one pass over the hits S
RECURSIVE EventsSent(_, _)
EventsSent(w, S) ==
    IF S = {} THEN 0
    ELSE LET p == CHOOSE q \in S : TRUE
         IN  HitEvents(w, p[1], p[2]) + EventsSent(w, S \ {p})

run_if_rockets == Of(world, "rocket") # {}
run_if_planes == Of(world, "plane") # {}
run_if_bombs == Of(world, "bomb") # {}
run_if_rockets_alone == Of(world, "rocket") # {}
run_if_rockets_and_planes ==
    IF Of(world, "rocket") # {} /\ Of(world, "plane") # {} THEN TRUE ELSE FALSE

----------------------------------------------------------------------------
(* The schedule *)

Systems == {"move_player", "fire_rocket", "spawn_planes", "spawn_bombs",
            "plane_spawn_timer_update", "bomb_spawn_timer_update",
            "plane_update", "bomb_spawn_timer_update_if_planes",
            "rocket_update", "update_bombs"}

\* The Update systems fall into five groups that share no data: the player
\* (move_player writes the Transform fire_rocket reads), the plane spawn
\* timer, the planes (their Transform and their bomb timer), the rockets
\* and the bombs.  Commands are applied after the last system, so no system
\* sees what another one queued, and systems of different groups cannot
\* observe the order they ran in.  The model runs the groups one after the
\* other and the systems of a group in every order.
Group(s) ==
    CASE s \in {"spawn_planes", "plane_spawn_timer_update"} -> 1
      [] s \in {"spawn_bombs", "bomb_spawn_timer_update", "plane_update",
                "bomb_spawn_timer_update_if_planes"} -> 2
      [] s = "rocket_update" -> 3
      [] s = "update_bombs" -> 4
      [] s \in {"move_player", "fire_rocket"} -> 5

CanRun(s) ==
    /\ s \notin ran
    /\ \A t \in Systems : Group(t) < Group(s) => t \in ran

\* A system of the Update schedule ran: nothing of the frame's inputs moves
Ran(s) ==
    /\ ran' = ran \cup {s}
    /\ UNCHANGED <<window, nextId, delta, now, passes, events, probe>>

\* Query::get_single().unwrap() on the player: the system panics, and the
\* application stops, unless there is exactly one
SinglePlayer == Cardinality(Of(world, "player")) = 1
ThePlayer == CHOOSE id \in Of(world, "player") : TRUE

\* The ids of S in increasing order (the order a query is iterated in)
RECURSIVE Sorted(_)
Sorted(S) ==
    IF S = {} THEN <<>>
    ELSE LET m == CHOOSE x \in S : \A y \in S : x <= y
         IN  <<m>> \o Sorted(S \ {m})

----------------------------------------------------------------------------
(* The player *)

\* The keys are an input: each is drawn when a system reads it.  Space is
\* "just" in the frame it goes down (just_pressed), "held" while it stays
\* down and "up" otherwise.
NoKeys == [left |-> FALSE, right |-> FALSE, space |-> "up"]

\* key_input.pressed(ArrowLeft), key_input.pressed(ArrowRight)
DirectionLeftWins(left, right) == IF left THEN -1 ELSE IF right THEN 1 ELSE 0

Direction(left, right) == (IF left THEN -1 ELSE 0) + (IF right THEN 1 ELSE 0)

PlayerStep(e, left, right, d) ==
    [e EXCEPT !.x = @ + Dist(e.speed * Direction(left, right), d)]

\* The player stays within MaxTravel of the middle of the window
InReach(e) == Abs(e.x - window.w \div 2) <= Dist(PlayerSpeed, MaxTravel)

MovePlayer(Lefts, Rights) ==
    /\ CanRun("move_player")
    /\ SinglePlayer
    /\ \E left \in Lefts, right \in Rights :
        /\ InReach(PlayerStep(world[ThePlayer], left, right, delta))
        /\ keys' = [keys EXCEPT !.left = left, !.right = right]
        /\ world' = [world EXCEPT ![ThePlayer] = PlayerStep(@, left, right, delta)]
    /\ UNCHANGED <<planeSpawnTimer, cmds, hist>>
    /\ Ran("move_player")

move_player == MovePlayer(BOOLEAN, BOOLEAN)

FireTriggerPressed(space) == space # "up"

\* key_input.just_pressed(KeyCode::Space)
FireTrigger(space) == space = "just"

\* The rockets one run of fire_rocket spawns
FiredRockets(space, player) ==
    IF FireTrigger(space) THEN <<RocketEntity(player.x, player.y)>> ELSE <<>>

FireRocket(Spaces) ==
    /\ CanRun("fire_rocket")
    /\ SinglePlayer
    /\ \E space \in Spaces :
        /\ space = "just" => hist.edges < MaxRockets
        /\ keys' = [keys EXCEPT !.space = space]
        /\ hist' = [hist EXCEPT !.edges = @ + (IF space = "just" THEN 1 ELSE 0)]
        /\ cmds' = [cmds EXCEPT !.spawn = @ \o FiredRockets(space, world[ThePlayer])]
    /\ UNCHANGED <<world, planeSpawnTimer>>
    /\ Ran("fire_rocket")

fire_rocket == FireRocket({"up", "just", "held"})

----------------------------------------------------------------------------
(* Rockets *)

RocketMovesAlways(e, win) == TRUE

RocketMovesInclusive(e, win) == e.y <= win.h

\* rocket_transform.translation.y < window.height()
RocketMoves(e, win) == e.y < win.h

RocketStep(e, win, d) ==
    IF RocketMoves(e, win) THEN [e EXCEPT !.y = @ + Dist(e.speed, d)] ELSE e

rocket_update ==
    /\ CanRun("rocket_update")
    /\ IF run_if_rockets
       THEN /\ world' = [id \in DOMAIN world |->
                            IF world[id].kind = "rocket"
                            THEN RocketStep(world[id], window, delta)
                            ELSE world[id]]
            /\ cmds' = [cmds EXCEPT !.despawn = @ \cup
                            {id \in Of(world, "rocket") : ~RocketMoves(world[id], window)}]
       ELSE UNCHANGED <<world, cmds>>
    /\ UNCHANGED <<keys, planeSpawnTimer, hist>>
    /\ Ran("rocket_update")

----------------------------------------------------------------------------
(* Planes *)

\* plane_spawn_timer.timer.finished()
PlanesDue(t, win) == IF t.finished THEN <<PlaneEntity(win)>> ELSE <<>>

spawn_planes ==
    /\ CanRun("spawn_planes")
    /\ cmds' = [cmds EXCEPT !.spawn = @ \o PlanesDue(planeSpawnTimer, window)]
    /\ UNCHANGED <<keys, world, planeSpawnTimer, hist>>
    /\ Ran("spawn_planes")

plane_spawn_timer_update ==
    /\ CanRun("plane_spawn_timer_update")
    /\ planeSpawnTimer' = Tick(planeSpawnTimer, delta)
    /\ hist' = [hist EXCEPT !.pulses = @ + (IF planeSpawnTimer'.finished THEN 1 ELSE 0)]
    /\ UNCHANGED <<keys, world, cmds>>
    /\ Ran("plane_spawn_timer_update")

\* plane_transform.translation.y < window.height()
PlaneMoves(e, win) == e.y < win.h

PlaneStep(e, win, d) ==
    IF PlaneMoves(e, win) THEN [e EXCEPT !.x = @ - Dist(e.speed, d)] ELSE e

plane_update ==
    /\ CanRun("plane_update")
    /\ IF run_if_planes
       THEN /\ world' = [id \in DOMAIN world |->
                            IF world[id].kind = "plane"
                            THEN PlaneStep(world[id], window, delta)
                            ELSE world[id]]
            /\ cmds' = [cmds EXCEPT !.despawn = @ \cup
                            {id \in Of(world, "plane") : ~PlaneMoves(world[id], window)}]
       ELSE UNCHANGED <<world, cmds>>
    /\ UNCHANGED <<keys, planeSpawnTimer, hist>>
    /\ Ran("plane_update")

----------------------------------------------------------------------------
(* Bombs *)

\* plane.bomb_spawn_timer.finished()
BombDue(e) == e.timer.finished

\* The bombs of the planes ids (a sequence of ids), in that order
RECURSIVE BombsOf(_, _)
BombsOf(w, ids) ==
    IF ids = <<>> THEN <<>>
    ELSE (IF BombDue(w[Head(ids)])
          THEN <<BombEntity(w[Head(ids)].x, w[Head(ids)].y)>> ELSE <<>>)
         \o BombsOf(w, Tail(ids))

spawn_bombs ==
    /\ CanRun("spawn_bombs")
    /\ cmds' = [cmds EXCEPT !.spawn = @ \o BombsOf(world, Sorted(Of(world, "plane")))]
    /\ world' = [id \in DOMAIN world |->
                    IF world[id].kind = "plane" /\ BombDue(world[id])
                    THEN [world[id] EXCEPT !.dropped = @ + 1]
                    ELSE world[id]]
    /\ UNCHANGED <<keys, planeSpawnTimer, hist>>
    /\ Ran("spawn_bombs")

\* for mut plane in query.iter_mut() { plane.bomb_spawn_timer.tick(time.delta()) }
TickBombTimers(w, d) ==
    [id \in DOMAIN w |->
        IF w[id].kind = "plane" THEN [w[id] EXCEPT !.timer = Tick(@, d)] ELSE w[id]]

\* main() adds bomb_spawn_timer_update to Update twice: once as it is ...
bomb_spawn_timer_update ==
    /\ CanRun("bomb_spawn_timer_update")
    /\ world' = TickBombTimers(world, delta)
    /\ UNCHANGED <<keys, planeSpawnTimer, cmds, hist>>
    /\ Ran("bomb_spawn_timer_update")

\* ... and once with run_if(run_if_planes)
bomb_spawn_timer_update_if_planes ==
    /\ CanRun("bomb_spawn_timer_update_if_planes")
    /\ world' = IF run_if_planes THEN TickBombTimers(world, delta) ELSE world
    /\ UNCHANGED <<keys, planeSpawnTimer, cmds, hist>>
    /\ Ran("bomb_spawn_timer_update_if_planes")

\* bomb_transform.translation.y > -16.0
BombFallsInverted(e) == e.y < BombFloor

BombFalls(e) == e.y > BombFloor

BombStep(e, d) ==
    IF BombFalls(e) THEN [e EXCEPT !.y = @ - Dist(e.speed, d)] ELSE e

update_bombs ==
    /\ CanRun("update_bombs")
    /\ IF run_if_bombs
       THEN /\ world' = [id \in DOMAIN world |->
                            IF world[id].kind = "bomb"
                            THEN BombStep(world[id], delta)
                            ELSE world[id]]
            /\ cmds' = [cmds EXCEPT !.despawn = @ \cup
                            {id \in Of(world, "bomb") : ~BombFalls(world[id])}]
       ELSE UNCHANGED <<world, cmds>>
    /\ UNCHANGED <<keys, planeSpawnTimer, hist>>
    /\ Ran("update_bombs")

----------------------------------------------------------------------------
(* FixedUpdate *)

\* The entities one pass of rocket_collision despawns
CollisionDespawns(w) == UNION {HitDespawns(w, p[1], p[2]) : p \in Hits(w)}

rocket_collision ==
    /\ world' = Apply(world, nextId, [spawn |-> <<>>, despawn |-> CollisionDespawns(world)])
    /\ events' = events + EventsSent(world, Hits(world))
    /\ UNCHANGED hist

\* One run of the FixedUpdate schedule.  The engine runs it before Update,
\* as often as the fixed timestep fits into the time that has accumulated:
\* not at all in some frames, more than once in others.
FixedUpdate ==
    /\ ran = {}
    /\ passes < MaxFixedPasses
    /\ passes' = passes + 1
    /\ IF run_if_rockets_and_planes
       THEN rocket_collision
       ELSE UNCHANGED <<world, events, hist>>
    /\ UNCHANGED <<window, nextId, planeSpawnTimer, keys, delta, now, ran, cmds,
                   probe>>

----------------------------------------------------------------------------
(* Frames *)

\* The number of entities of a kind in a sequence of spawn commands
RECURSIVE CountKind(_, _)
CountKind(sp, kind) ==
    IF sp = <<>> THEN 0
    ELSE (IF Head(sp).kind = kind THEN 1 ELSE 0) + CountKind(Tail(sp), kind)

\* The planes that lived through a frame of d half seconds are d older
Aged(w, d) ==
    [id \in DOMAIN w |->
        IF w[id].kind = "plane" THEN [w[id] EXCEPT !.age = @ + d] ELSE w[id]]

\* The end of the Update schedule (its commands are applied), and the
\* delta of the next frame
EndFrameIn(Ds, limit) ==
    /\ ran = Systems
    /\ world' = Apply(Aged(world, delta), nextId, cmds)
    /\ LET seen == InPlaneHits(Apply(Aged(world, delta), nextId, cmds))
       IN  \E d \in Ds :
            /\ now + d <= limit
            /\ delta' = d
            /\ now' = now + d
            /\ hist' = [hist EXCEPT
                            !.seen = seen,
                            !.rockets = @ + CountKind(cmds.spawn, "rocket"),
                            !.planes = @ + CountKind(cmds.spawn, "plane"),
                            !.bombs = @ + CountKind(cmds.spawn, "bomb")]
    /\ nextId' = nextId + Len(cmds.spawn)
    /\ cmds' = NoCmds
    /\ ran' = {}
    /\ passes' = 0
    /\ events' = 0
    /\ keys' = NoKeys
    /\ UNCHANGED <<window, planeSpawnTimer, probe>>

EndFrame == EndFrameIn(Deltas, MaxTime)

\* Startup: spawn_player (setup_camera's camera takes no part), the
\* resources main() initialises, and the delta of the first frame
spawn_player(win) == <<PlayerEntity(win)>>

InitIn(Wins, Ds) ==
    /\ window \in Wins
    /\ world = Apply(<<>>, 1, [spawn |-> spawn_player(window), despawn |-> {}])
    /\ nextId = 2
    /\ planeSpawnTimer = TimerFromSeconds(PlanePeriod)
    /\ delta \in Ds
    /\ now = delta
    /\ keys = NoKeys
    /\ ran = {}
    /\ passes = 0
    /\ cmds = NoCmds
    /\ events = 0
    /\ hist = [edges |-> 0,
               rockets |-> 0, planes |-> 0, bombs |-> 0, pulses |-> 0,
               seen |-> {}]
    /\ probe = NoProbe

Init == InitIn(Windows, Deltas)

Next ==
    \/ FixedUpdate
    \/ move_player
    \/ fire_rocket
    \/ spawn_planes
    \/ spawn_bombs
    \/ plane_spawn_timer_update
    \/ bomb_spawn_timer_update
    \/ plane_update
    \/ bomb_spawn_timer_update_if_planes
    \/ rocket_update
    \/ update_bombs
    \/ EndFrame

Spec == Init /\ [][Next]_vars

\* The same program with no key touched
idle_move_player == MovePlayer({FALSE}, {FALSE})
idle_fire_rocket == FireRocket({"up"})
EndTimerFrame == EndFrameIn(TimerDeltas, MaxTimerTime)

InitTimers == InitIn(TimerWindows, TimerDeltas)

NextTimers ==
    \/ FixedUpdate
    \/ idle_move_player
    \/ idle_fire_rocket
    \/ spawn_planes
    \/ spawn_bombs
    \/ plane_spawn_timer_update
    \/ bomb_spawn_timer_update
    \/ plane_update
    \/ bomb_spawn_timer_update_if_planes
    \/ rocket_update
    \/ update_bombs
    \/ EndTimerFrame

SpecTimers == InitTimers /\ [][NextTimers]_vars

\* The same program with the arrow keys left alone
EndBombFrame == EndFrameIn(BombDeltas, MaxBombTime)

InitBombs == InitIn(BombWindows, BombDeltas)

NextBombs ==
    \/ FixedUpdate
    \/ idle_move_player
    \/ fire_rocket
    \/ spawn_planes
    \/ spawn_bombs
    \/ plane_spawn_timer_update
    \/ bomb_spawn_timer_update
    \/ plane_update
    \/ bomb_spawn_timer_update_if_planes
    \/ rocket_update
    \/ update_bombs
    \/ EndBombFrame

SpecBombs == InitBombs /\ [][NextBombs]_vars

\* One call of is_collision (rocket_collision calls it for every pair)
IsCollisionCall ==
    /\ probe.result = "unset"
    /\ probe' = [probe EXCEPT !.result = is_collision(probe.colliding, probe.collider)]
    /\ UNCHANGED <<window, world, nextId, planeSpawnTimer, keys, delta, now, ran,
                   passes, cmds, events, hist>>

\* is_collision on its own.  A frame begins, three seconds after startup,
\* with the player, the first plane (spawned a second ago) and one rocket
\* in flight; the collider box of the call lies at (dx, dy) from the
\* colliding box, and the plane lies at (dx, dy) pixels from the rocket.
InitBoxes ==
    \E dx \in -MaxOffset..MaxOffset, dy \in -MaxOffset..MaxOffset,
       h1 \in HalfExtents, h2 \in HalfExtents :
        /\ window \in BoxWindows
        /\ LET plane == [PlaneEntity(window) EXCEPT
                            !.x = @ - Dist(PlaneSpeed, 2), !.age = 2,
                            !.timer = Tick(Tick(@, 2), 2)]
               rocket == RocketEntity(plane.x - dx, plane.y - dy)
           IN  world = Apply(<<>>, 1, [spawn |-> spawn_player(window) \o <<plane, rocket>>,
                                       despawn |-> {}])
        /\ nextId = 4
        /\ planeSpawnTimer = Tick(Tick(TimerFromSeconds(PlanePeriod), PlanePeriod), 2)
        /\ delta = 2
        /\ now = PlanePeriod + 2
        /\ keys = NoKeys
        /\ ran = {}
        /\ passes = 0
        /\ cmds = NoCmds
        /\ events = 0
        /\ hist = [edges |-> 1,
                   rockets |-> 1, planes |-> 1, bombs |-> 0, pulses |-> 1,
                   seen |-> InPlaneHits(world)]
        /\ probe = [colliding |-> Box(0, 0, h1), collider |-> Box(dx, dy, h2),
                    result |-> "unset"]

NextBoxes ==
    \/ IsCollisionCall
    \/ FixedUpdate

SpecBoxes == InitBoxes /\ [][NextBoxes]_vars

----------------------------------------------------------------------------
(* Properties *)

FrameStart == ran = {} /\ passes = 0
FrameEnd == ran = Systems
\* The step that is one run of the FixedUpdate schedule
PassStep == passes' = passes + 1
\* The step in which system s runs
RunStep(s) == s \notin ran /\ s \in ran'
\* The step that applies the commands of the Update schedule
EndStep == ran = Systems /\ ran' = {}
\* An entity that is gone stays gone: ids are never handed out twice
GoneForGood == \A id \in 1..(nextId - 1) : id \notin DOMAIN world => id \notin DOMAIN world'

\* C1: in every reachable state exactly one player exists, the entity that
\* spawn_player created; no frame removes it or creates a second one.
C1_OnePlayer ==
    /\ Of(world, "player") = {1}
    /\ world[1] = [PlayerEntity(window) EXCEPT !.x = world[1].x]

\* A collision pass has run in which a rocket's box overlapped the player's,
\* and the rocket is still there
C1_Witness ==
    /\ passes > 0
    /\ events > 0
    /\ \E p \in Hits(world) : world[p[2]].kind = "player"

\* C2 as stated: a rocket and a plane whose boxes overlap when a frame begins
\* are both despawned in that frame, and absent in the following one.
C2_OverlapDespawnedInFrame ==
    FrameEnd => \A id \in hist.seen : id \notin DOMAIN world \/ id \in cmds.despawn

\* C2: whenever a pass of rocket_collision runs while a live rocket's box
\* overlaps a live plane's box, both are despawned by that pass and stay
\* absent from the world.  (A frame without a pass despawns neither.)
C2_PassDespawnsBoth ==
    [][/\ PassStep => \A id \in InPlaneHits(world) : id \notin DOMAIN world'
       /\ GoneForGood]_vars

\* The frame began with a rocket on a plane and its pass removed both
C2_Witness ==
    /\ passes > 0
    /\ hist.seen # {}
    /\ hist.seen \cap DOMAIN world = {}

\* C3 as stated: the events of a pass are as many as the overlapping
\* (rocket, plane) pairs; a rocket on the player sends none.
C3_EventPerPlaneHit ==
    [][PassStep => events' - events = Cardinality(PlaneHits(world))]_vars

\* C3: a pass of rocket_collision sends one CollisionEvent for each
\* overlapping (rocket, collider) pair, the player's included, and for
\* nothing else; it despawns the rockets and planes of the overlapping
\* (rocket, plane) pairs and nothing else, so a rocket on the player sends an
\* event and despawns nothing.
C3_EventPerHit ==
    [][(PassStep /\ run_if_rockets_and_planes) =>
          /\ events' - events = Cardinality(Hits(world))
          /\ DOMAIN world' = DOMAIN world \ InPlaneHits(world)
          /\ \A id \in DOMAIN world' : world'[id] = world[id]]_vars

\* One pass sent two events: for a rocket on a plane and for the same
\* rocket on the player
C3_Witness ==
    /\ passes = 1
    /\ events = 2
    /\ Cardinality(hist.seen) = 2

\* C4 as stated: when a frame begins, every plane has dropped as many bombs
\* as 2-second periods have been completed since it was spawned.
C4_BombPerPeriod ==
    FrameStart =>
        \A p \in Of(world, "plane") : world[p].dropped = world[p].age \div BombPeriod

\* C5 as stated: in every frame, spawn_planes queues one plane exactly if the
\* tick of that frame finished the timer.
C5_PulseConsumedInFrame ==
    FrameEnd =>
        CountKind(cmds.spawn, "plane") = (IF planeSpawnTimer.finished THEN 1 ELSE 0)

\* C6 as stated: when the frames that have run add up to exactly one period
\* of the plane-spawn timer, exactly one plane has been spawned.
C6_OneSpawnPerPeriod ==
    (FrameStart /\ now - delta = PlanePeriod) => hist.planes = 1

\* C7 as stated: a plane that was left of the screen's left edge when a frame
\* began is despawned in that frame.
C7_OffscreenPlaneDespawned ==
    FrameEnd =>
        \A p \in Of(world, "plane") :
            world[p].x + Dist(PlaneSpeed, delta) < 0 => p \in cmds.despawn

\* The rockets among spawn commands
Rockets(sp) == SelectSeq(sp, LAMBDA e : e.kind = "rocket")

\* C8: a run of fire_rocket that finds Space just pressed queues exactly one
\* rocket, at the position the player has at that moment and with speed
\* 600, and a run that finds the key held or up queues none; so when a
\* frame has ended, as many rockets were created as there were fire edges.
C8_OneRocketPerEdge ==
    /\ [](FrameStart => hist.rockets = hist.edges)
    /\ [][RunStep("fire_rocket") =>
            /\ keys'.space = "just" =>
                  /\ Len(cmds'.spawn) = Len(cmds.spawn) + 1
                  /\ cmds'.spawn[Len(cmds'.spawn)] =
                        [kind |-> "rocket", x |-> world[1].x, y |-> world[1].y,
                         scale |-> 1, speed |-> 600, collider |-> FALSE,
                         timer |-> NoTimer, age |-> 0, dropped |-> 0]
                  /\ hist'.edges = hist.edges + 1
            /\ keys'.space # "just" => cmds' = cmds /\ hist' = hist]_vars

\* A frame with the key held ends after an earlier fire edge made a rocket,
\* and queues none
C8_Witness ==
    /\ FrameEnd
    /\ keys.space = "held"
    /\ hist.rockets = 1
    /\ Rockets(cmds.spawn) = <<>>
    /\ \E r \in Of(world, "rocket") : world[r].x = world[1].x /\ world[r].y = world[1].y

\* C9: rocket_update moves every rocket with y < window height up by
\* speed * delta and keeps it, and despawns every rocket with y >= window
\* height (y equal to the height included) without moving it; the rockets it
\* despawns are gone when the frame's commands are applied, the others live.
C9_RocketUpdate ==
    [][/\ RunStep("rocket_update") =>
            \A r \in Of(world, "rocket") :
                IF world[r].y < window.h
                THEN /\ world'[r] = [world[r] EXCEPT !.y = @ + (600 * delta) \div 2]
                     /\ r \notin cmds'.despawn
                ELSE /\ world'[r] = world[r]
                     /\ r \in cmds'.despawn
       /\ EndStep =>
            \A r \in Of(world, "rocket") :
                r \in DOMAIN world' <=> r \notin cmds.despawn
       ]_vars

\* A rocket exactly at the window's height is queued for despawn
C9_Witness ==
    \E r \in Of(world, "rocket") :
        /\ world[r].y = window.h
        /\ r \in cmds.despawn

\* C10: update_bombs moves every bomb with y > -16 down by falling_speed *
\* delta and keeps it, and despawns every bomb with y <= -16, which is gone
\* when the frame's commands are applied; no step ever raises a bomb, and a
\* bomb that stays is less than one frame's fall below -16.
C10_BombsFall ==
    /\ [](FrameEnd => \A b \in Of(world, "bomb") \ cmds.despawn :
                        world[b].y > -16 - (100 * delta) \div 2)
    /\ [][/\ RunStep("update_bombs") =>
                \A b \in Of(world, "bomb") :
                    IF world[b].y > -16
                    THEN /\ world'[b] = [world[b] EXCEPT !.y = @ - (100 * delta) \div 2]
                         /\ b \notin cmds'.despawn
                    ELSE /\ world'[b] = world[b]
                         /\ b \in cmds'.despawn
          /\ EndStep =>
                \A b \in Of(world, "bomb") :
                    b \in DOMAIN world' <=> b \notin cmds.despawn
          /\ \A b \in Of(world, "bomb") \cap DOMAIN world' : world'[b].y <= world[b].y
          ]_vars

\* A bomb below -16 is queued for despawn
C10_Witness ==
    \E b \in Of(world, "bomb") :
        /\ world[b].y <= -16
        /\ b \in cmds.despawn

----------------------------------------------------------------------------
\* Two boxes are separated on an axis when their centres lie further apart
\* on it than the sum of their half extents (all of it doubled)
SeparatedOnX(a, b) ==
    Abs((a.minx + a.maxx) - (b.minx + b.maxx)) > (a.maxx - a.minx) + (b.maxx - b.minx)
SeparatedOnY(a, b) ==
    Abs((a.miny + a.maxy) - (b.miny + b.maxy)) > (a.maxy - a.miny) + (b.maxy - b.miny)
Separated(a, b) == SeparatedOnX(a, b) \/ SeparatedOnY(a, b)

\* The (rocket, collider) pairs of a world whose boxes are not separated
Overlapping(w) ==
    {p \in Of(w, "rocket") \X Colliders(w) : ~Separated(Aabb(w[p[1]]), Aabb(w[p[2]]))}

\* C11: is_collision returns None exactly when the two boxes are separated
\* on x or on y, and a side otherwise; the boxes with centres (0,0) and (3,0)
\* and half extents (1,1) give None; and a pass of rocket_collision sends no
\* more events than there are overlapping (rocket, collider) pairs and
\* despawns nothing outside those pairs.
C11_NoneIffSeparated ==
    /\ [](probe.result # "unset" =>
            /\ probe.result = "None" <=> Separated(probe.colliding, probe.collider)
            /\ probe.result \in {"None", "Left", "Right", "Top", "Bottom"})
    /\ [](/\ probe.colliding = Box(0, 0, 1)
          /\ probe.collider = Box(3, 0, 1)
          /\ probe.result # "unset"
          => probe.result = "None")
    /\ [][PassStep =>
            /\ events' - events <= Cardinality(Overlapping(world))
            /\ (DOMAIN world \ DOMAIN world') \subseteq
                    UNION {{p[1], p[2]} : p \in Overlapping(world)}]_vars

\* The call on the boxes (0,0) and (3,0) returned None, and a pass has run
\* over a rocket that overlaps nothing
C11_Witness ==
    /\ probe = [colliding |-> Box(0, 0, 1), collider |-> Box(3, 0, 1), result |-> "None"]
    /\ passes = 1
    /\ Of(world, "rocket") # {}
    /\ Overlapping(world) = {}
    /\ events = 0

\* C12: for two overlapping boxes whose centres have the same y and
\* different x, is_collision returns Left or Right, never Top or Bottom (so
\* also for the boxes with centres (0,0) and (1,0) and half extents (1,1)).
C12_HorizontalSide ==
    /\ probe.result # "unset"
    /\ ~Separated(probe.colliding, probe.collider)
    /\ probe.colliding.miny + probe.colliding.maxy
            = probe.collider.miny + probe.collider.maxy
    /\ probe.colliding.minx + probe.colliding.maxx
            # probe.collider.minx + probe.collider.maxx
    => probe.result \in {"Left", "Right"}

\* C13: one run of move_player adds speed * direction * delta to the
\* player's x, where direction is -1 for left alone, 1 for right alone and
\* 0 for neither key or both, and leaves the player's y, its other
\* components and every other entity as they were.
C13_MovePlayer ==
    [][RunStep("move_player") =>
        LET dir == IF keys'.left /\ ~keys'.right THEN -1
                   ELSE IF keys'.right /\ ~keys'.left THEN 1
                   ELSE 0
        IN  /\ DOMAIN world' = DOMAIN world
            /\ \A id \in DOMAIN world :
                    IF world[id].kind = "player"
                    THEN /\ 2 * (world'[id].x - world[id].x) = PlayerSpeed * dir * delta
                         /\ world'[id] = [world[id] EXCEPT !.x = world'[id].x]
                    ELSE world'[id] = world[id]
            /\ cmds' = cmds]_vars

\* move_player has run with both keys down in a frame that took time, the
\* player is where it started, and there are other entities
C13_Witness ==
    /\ "move_player" \in ran
    /\ keys.left /\ keys.right
    /\ delta > 0
    /\ world[ThePlayer].x = window.w \div 2
    /\ Of(world, "rocket") # {}
    /\ Of(world, "plane") # {}

\* C14: every timer is advanced by the frame's delta once per frame: when a
\* frame's systems have run, the plane-spawn timer has accumulated the time
\* since startup and the bomb timer of every plane the time the plane has
\* lived, each modulo the timer's period.
C14_TimersFollowTime ==
    FrameEnd =>
        /\ planeSpawnTimer.elapsed = now % PlanePeriod
        /\ \A id \in Of(world, "plane") :
                world[id].timer.elapsed = (world[id].age + delta) % BombPeriod

\* C15: no live rocket is observable with y >= the window's height when a
\* frame has ended (when the next one begins).
C15_NoRocketBeyond ==
    FrameStart => \A id \in Of(world, "rocket") : world[id].y < window.h

\* C15, amended: a rocket is moved past the window's height in the frame in
\* which it crosses it, by less than the frame's travel, and it lives there
\* for one frame: when the systems of a frame have run, every rocket either was
\* below the height before it was moved, or is at or beyond the height,
\* unmoved, and its despawn is queued.
C15_BeyondForOneFrame ==
    FrameEnd =>
        \A id \in Of(world, "rocket") :
            IF id \in cmds.despawn
            THEN world[id].y >= window.h
            ELSE world[id].y - Dist(RocketSpeed, delta) < window.h

\* A rocket that lived beyond the window's height since the frame before is
\* being despawned
C15_Witness ==
    /\ FrameEnd
    /\ \E id \in Of(world, "rocket") :
            id \in cmds.despawn /\ world[id].y > window.h

\* C16: whatever the frame deltas, when a frame begins the planes spawned so
\* far are as many as the periods of the plane-spawn timer that fit into the
\* time of the frames that have run, or one fewer while the timer's pulse is
\* still pending.
C16_PlanesPerPeriod ==
    FrameStart =>
        LET due == (now - delta) \div PlanePeriod
        IN  \/ hist.planes = due
            \/ hist.planes = due - 1 /\ planeSpawnTimer.finished

\* A step of the Update schedule: one of its systems runs
UpdateStep == \E s \in Systems : RunStep(s)
TimerSteps == {"bomb_spawn_timer_update", "bomb_spawn_timer_update_if_planes"}

\* C17: in a frame whose delta is 0, no system changes a timer (neither its
\* accumulated time nor its finished flag), no system moves an entity, and a
\* plane or a bomb is queued only for a timer that is finished.
C17_ZeroDeltaNoOp ==
    [][delta = 0 /\ UpdateStep =>
        /\ planeSpawnTimer' = planeSpawnTimer
        /\ world' = world
        /\ CountKind(cmds'.spawn, "plane") > CountKind(cmds.spawn, "plane")
                => planeSpawnTimer.finished
        /\ CountKind(cmds'.spawn, "bomb") > CountKind(cmds.spawn, "bomb")
                => \E id \in Of(world, "plane") : world[id].timer.finished]_vars

\* C17, amended: in a frame whose delta is 0, a tick leaves the timer's
\* accumulated time as it was and clears its finished flag, no other system
\* changes a timer, no system moves an entity or changes anything else of
\* it, and a plane or a bomb is queued only by a spawn system that finds the
\* flag still set, which it is only before the frame's tick of that timer.
C17_ZeroDeltaClearsFlag ==
    [][delta = 0 /\ UpdateStep =>
        /\ planeSpawnTimer' =
                IF RunStep("plane_spawn_timer_update")
                THEN [planeSpawnTimer EXCEPT !.finished = FALSE]
                ELSE planeSpawnTimer
        /\ DOMAIN world' = DOMAIN world
        /\ \A id \in DOMAIN world :
                world'[id] =
                    IF world[id].kind = "plane" /\ \E s \in TimerSteps : RunStep(s)
                    THEN [world[id] EXCEPT !.timer.finished = FALSE]
                    ELSE [world[id] EXCEPT
                            !.dropped = @ + (IF /\ world[id].kind = "plane"
                                                /\ RunStep("spawn_bombs")
                                                /\ world[id].timer.finished
                                             THEN 1 ELSE 0)]
        /\ CountKind(cmds'.spawn, "plane") > CountKind(cmds.spawn, "plane")
                => /\ RunStep("spawn_planes")
                   /\ planeSpawnTimer.finished
                   /\ "plane_spawn_timer_update" \notin ran
        /\ CountKind(cmds'.spawn, "bomb") > CountKind(cmds.spawn, "bomb")
                => /\ RunStep("spawn_bombs")
                   /\ \E id \in Of(world, "plane") : world[id].timer.finished
                   /\ TimerSteps \cap ran = {}]_vars

\* A frame of delta 0 in which spawn_planes found the flag of the tick
\* before and the frame's own tick cleared it, with a plane and a rocket in
\* the world
C17_Witness ==
    /\ FrameEnd
    /\ delta = 0
    /\ CountKind(cmds.spawn, "plane") = 1
    /\ ~planeSpawnTimer.finished
    /\ Of(world, "plane") # {}
    /\ Of(world, "rocket") # {}

\* A world without its bombs
NoBombs(w) == [id \in DOMAIN w \ Of(w, "bomb") |-> w[id]]

\* C18: bombs are inert.  No bomb carries Collider, so no bomb is among the
\* rockets or colliders a pass of rocket_collision looks at; a pass leaves
\* every bomb as it is, and sends the events and despawns the entities it
\* would without the bombs; update_bombs changes nothing but bombs and no
\* other system changes a bomb; and a bomb leaves the world only when the
\* frame's commands are applied, after update_bombs queued its despawn with
\* the bomb at y <= -16.
C18_BombsInert ==
    /\ [](\A b \in Of(world, "bomb") :
            b \notin Colliders(world) /\ b \notin Of(world, "rocket"))
    /\ [][/\ PassStep =>
                LET w == NoBombs(world)
                    runs == Of(w, "rocket") # {} /\ Of(w, "plane") # {}
                IN  /\ \A b \in Of(world, "bomb") :
                            b \in DOMAIN world' /\ world'[b] = world[b]
                    /\ events' - events = IF runs THEN Cardinality(Hits(w)) ELSE 0
                    /\ DOMAIN world \ DOMAIN world' =
                            IF runs THEN InPlaneHits(w) ELSE {}
          /\ RunStep("update_bombs") =>
                /\ NoBombs(world') = NoBombs(world)
                /\ planeSpawnTimer' = planeSpawnTimer
                /\ cmds'.spawn = cmds.spawn
                /\ cmds'.despawn \ cmds.despawn \subseteq Of(world, "bomb")
          /\ \A b \in Of(world, "bomb") :
                /\ UpdateStep /\ ~RunStep("update_bombs") =>
                        /\ b \in DOMAIN world' /\ world'[b] = world[b]
                        /\ b \in cmds'.despawn <=> b \in cmds.despawn
                /\ b \in cmds'.despawn /\ b \notin cmds.despawn =>
                        RunStep("update_bombs") /\ world[b].y <= -16
                /\ b \notin DOMAIN world' =>
                        EndStep /\ b \in cmds.despawn /\ world[b].y <= -16
          ]_vars

\* A pass has sent events and despawned the rocket and the plane while a
\* bomb lies where the player is, and the bomb and the player are there
C18_Witness ==
    /\ passes = 1
    /\ events > 0
    /\ Of(world, "rocket") = {}
    /\ SinglePlayer
    /\ \E b \in Of(world, "bomb") :
            world[b].x = world[ThePlayer].x /\ world[b].y = world[ThePlayer].y

\* C19: a pass of the FixedUpdate schedule that finds no live rocket or no
\* live plane does not run rocket_collision: it sends no event and despawns
\* nothing, whatever overlaps.
C19_GatedPass ==
    [][PassStep /\ (Of(world, "rocket") = {} \/ Of(world, "plane") = {}) =>
        /\ events' = events
        /\ world' = world
        /\ cmds' = cmds]_vars

\* A pass has run over a rocket that overlaps the player, with no plane in
\* the world, and no event was sent
C19_Witness ==
    /\ passes = 1
    /\ Of(world, "plane") = {}
    /\ \E p \in Overlapping(world) : world[p[2]].kind = "player"
    /\ events = 0

====
